---- MODULE Spec2Model ----
(***************************************************************************)
(* OidBridge (src/src/oidbridge/oid_bridge.cpp): the host-side bridge that *)
(* listens on a TCP port, spawns the oidwindow UI process, accepts its     *)
(* connection and exchanges typed messages with it.                        *)
(*                                                                         *)
(* The host is one thread of control (pc, frame); the UI process is the    *)
(* environment: it connects, sends PlotBufferRequest messages, answers     *)
(* GetObservedSymbols requests, closes its socket or exits.                *)
(*                                                                         *)
(* The Qt socket has two levels, as QTcpSocket has without an event loop:  *)
(* net is what has arrived at the operating system's socket, rxbuf is the  *)
(* QIODevice buffer that bytesAvailable() counts and read() consumes; only *)
(* waitForReadyRead moves bytes from net to rxbuf.                         *)
(***************************************************************************)
EXTENDS Integers, Sequences, FiniteSets

VARIABLES
    server_listening,   \* server_ is in the listening state
    backlog,            \* connections waiting on the listening socket
    ui_running,         \* ui_proc_.isRunning()
    ui_connected,       \* the UI process has connected its socket
    peer_closed,        \* the UI's end of the connection is closed
    client_,            \* client_: nullptr or the accepted socket
    net,                \* tokens arrived at the socket, not yet buffered
    rxbuf,              \* tokens in the socket's read buffer
    toPeer,             \* messages written to client_, not yet read by the UI
    received_messages_, \* the map MessageType -> message, as key/value pairs
    seen,               \* per type: messages decoded since the last delivery
    pc,                 \* the host's position
    frame,              \* locals of the call in progress
    last,               \* the last call that returned, with what it returned
    calls,              \* host calls made so far
    sent                \* messages the UI has sent so far

vars == <<server_listening, backlog, ui_running, ui_connected, peer_closed,
          client_, net, rxbuf, toPeer, received_messages_, seen, pc, frame,
          last, calls, sent>>

(* Bounds of the model. *)
MaxCalls == 4
MaxPeerMsgs == 3

(* ----------------------------- data ----------------------------------- *)

nullptr == "nullptr"
socket == "socket"

GetObservedSymbols == "GetObservedSymbols"
GetObservedSymbolsResponse == "GetObservedSymbolsResponse"
SetAvailableSymbols == "SetAvailableSymbols"
PlotBufferContents == "PlotBufferContents"
PlotBufferRequest == "PlotBufferRequest"

(* The types the host stores (the two cases of the switch). *)
StoredTypes == {PlotBufferRequest, GetObservedSymbolsResponse}

Names == {"a", "b"}
SymbolLists == {<<>>, <<"b", "a">>}

(* A unique_ptr<UiMessage> that is null. *)
NoMessage == [null |-> TRUE]

PlotBufferRequestMessage(name) == [buffer_name |-> name]
GetObservedSymbolsResponseMessage(syms) == [observed_symbols |-> syms]

NoFrame == [op |-> "none"]

(* The host process ended inside the call named: a failed assert, or the   *)
(* null client_ dereferenced where NDEBUG removes the assert.              *)
Aborted(in) == [op |-> "abort", in |-> in]

(* ----------------------------- wire ----------------------------------- *)
(* A message on the wire is its tag followed by its payload fields; a      *)
(* string is one length-prefixed token, a sequence of strings is a count   *)
(* followed by that many strings.                                          *)

TagTok(t) == [k |-> "tag", v |-> t]
StrTok(s) == [k |-> "str", v |-> s]
CntTok(n) == [k |-> "cnt", v |-> n]

EncodePlotBufferRequest(name) == <<TagTok(PlotBufferRequest), StrTok(name)>>

EncodeGetObservedSymbolsResponse(syms) ==
    <<TagTok(GetObservedSymbolsResponse), CntTok(Len(syms))>>
        \o [i \in 1..Len(syms) |-> StrTok(syms[i])]

(* decode_plot_buffer_request: one string. *)
decode_plot_buffer_request(buf) ==
    [msg |-> PlotBufferRequestMessage(Head(buf).v), rest |-> Tail(buf)]

(* decode_get_observed_symbols_response that fills the deque back to front.*)
decode_get_observed_symbols_response_reversed(buf) ==
    LET n == Head(buf).v
    IN  [msg  |-> GetObservedSymbolsResponseMessage(
                      [i \in 1..n |-> buf[n + 2 - i].v]),
         rest |-> SubSeq(buf, n + 2, Len(buf))]

(* decode_get_observed_symbols_response: a count, then that many strings. *)
decode_get_observed_symbols_response(buf) ==
    LET n == Head(buf).v
    IN  [msg  |-> GetObservedSymbolsResponseMessage(
                      [i \in 1..n |-> buf[i + 1].v]),
         rest |-> SubSeq(buf, n + 2, Len(buf))]

(* --------------------------- the Inbox -------------------------------- *)

Entry(t, m) == [type |-> t, msg |-> m]

EntriesOf(map, t) == {e \in map : e.type = t}

(* received_messages_[header] = msg, with a map that keeps every value. *)
MapAssign_queue(map, t, m) == map \cup {Entry(t, m)}

(* received_messages_.emplace(header, msg): keeps the value already there. *)
MapAssign_keepfirst(map, t, m) ==
    IF EntriesOf(map, t) # {} THEN map ELSE map \cup {Entry(t, m)}

(* received_messages_[header] = msg. *)
MapAssign(map, t, m) == {e \in map : e.type # t} \cup {Entry(t, m)}

(* try_get_stored_message that returns the message and leaves it stored. *)
try_get_stored_message_keep(map, t) ==
    IF EntriesOf(map, t) # {}
    THEN [result |-> (CHOOSE e \in EntriesOf(map, t) : TRUE).msg, map |-> map]
    ELSE [result |-> NoMessage, map |-> map]

(* try_get_stored_message: find, move out, erase; nullptr when absent. *)
try_get_stored_message(map, t) ==
    IF EntriesOf(map, t) # {}
    THEN LET e == CHOOSE x \in EntriesOf(map, t) : TRUE
         IN  [result |-> e.msg, map |-> map \ {e}]
    ELSE [result |-> NoMessage, map |-> map]

(* --------------------------- readiness -------------------------------- *)

(* is_window_ready. *)
is_window_ready == client_ # nullptr /\ ui_running

(* The Channel's state, from the server, the accepted socket and the peer. *)
ChannelState ==
    IF pc = "destroyed"
    THEN "closed"
    ELSE IF client_ # nullptr
    THEN IF peer_closed THEN "closed" ELSE "connected"
    ELSE IF server_listening THEN "listening" ELSE "not-started"

(* ------------------------------ Init ---------------------------------- *)

Init ==
    /\ server_listening = FALSE
    /\ backlog = 0
    /\ ui_running = FALSE
    /\ ui_connected = FALSE
    /\ peer_closed = FALSE
    /\ client_ = nullptr
    /\ net = <<>>
    /\ rxbuf = <<>>
    /\ toPeer = <<>>
    /\ received_messages_ = {}
    /\ seen = [t \in StoredTypes |-> <<>>]
    /\ pc = "idle"
    /\ frame = NoFrame
    /\ last = [op |-> "none"]
    /\ calls = 0
    /\ sent = 0

(* ---------------------------- start() --------------------------------- *)

(* listen that binds again on a server that is already listening. *)
listen_again(bind_ok) == bind_ok

(* QTcpServer::listen: refuses a server that is already listening, and     *)
(* otherwise succeeds when the port can be bound.                          *)
listen(bind_ok) == ~server_listening /\ bind_ok

(* start() that reports success once the server listens. *)
start_result_listening(c) == server_listening

(* start(): return client_ != nullptr. *)
start_result(c) == c # nullptr

(* The ports the system may give a server that listens on any port. *)
Ports == {49152, 49153}

(* The command that carries a fixed port. *)
command_fixed_port(portStdString) ==
    <<"oidwindow", "-style", "fusion", "-p", 49152>>

(* The command start() gives ui_proc_: the binary, the style, the port. *)
command(portStdString) ==
    <<"oidwindow", "-style", "fusion", "-p", portStdString>>

(* start(), up to the spawn of the UI process: listen, build the command   *)
(* with the bound port, ui_proc_.start, ui_proc_.waitForStart.             *)
StartCall ==
    /\ pc = "idle"
    /\ calls < MaxCalls
    /\ calls' = calls + 1
    /\ \E bind_ok \in BOOLEAN, spawn_ok \in BOOLEAN, serverPort \in Ports :
          LET retry == server_listening /\ client_ = nullptr
          IN  IF ~listen(bind_ok)
              THEN /\ last' = [op            |-> "start",
                               ret           |-> FALSE,
                               listen_failed |-> TRUE,
                               spawned       |-> FALSE,
                               args          |-> <<>>,
                               spawn_failed  |-> FALSE,
                               accepted      |-> FALSE,
                               timed_out     |-> FALSE,
                               retry         |-> retry,
                               peer_waiting  |-> backlog > 0,
                               left_running  |-> ui_running]
                   /\ UNCHANGED <<server_listening, ui_running, pc, frame>>
              ELSE /\ server_listening' = TRUE
                   /\ ui_running' = spawn_ok
                   /\ frame' = [op      |-> "start",
                                spawned |-> spawn_ok,
                                port    |-> serverPort,
                                args    |-> command(serverPort),
                                retry   |-> retry]
                   /\ pc' = "wait_for_client"
                   /\ UNCHANGED last
    /\ UNCHANGED <<backlog, ui_connected, peer_closed, client_, net, rxbuf,
                   toPeer, received_messages_, seen, sent>>

(* wait_for_client, then start()'s return. waitForNewConnection is where   *)
(* the server takes connections from the listening socket; when none is    *)
(* there at the end of the window it returns false and                     *)
(* nextPendingConnection returns nullptr.                                  *)
WaitForClient ==
    /\ pc = "wait_for_client"
    /\ LET accepted == client_ = nullptr /\ backlog > 0
           timed_out == client_ = nullptr /\ backlog = 0
           c == IF client_ = nullptr
                THEN (IF backlog > 0 THEN socket ELSE nullptr)
                ELSE client_
       IN  /\ client_' = c
           /\ backlog' = IF accepted THEN backlog - 1 ELSE backlog
           /\ last' = [op            |-> "start",
                       ret           |-> start_result(c),
                       listen_failed |-> FALSE,
                       spawned       |-> frame.spawned,
                       args          |-> frame.args,
                       spawn_failed  |-> ~frame.spawned,
                       accepted      |-> accepted,
                       timed_out     |-> timed_out,
                       retry         |-> frame.retry,
                       peer_waiting  |-> backlog > 0,
                       left_running  |-> ui_running]
    /\ pc' = "idle"
    /\ frame' = NoFrame
    /\ UNCHANGED <<server_listening, ui_running, ui_connected, peer_closed,
                   net, rxbuf, toPeer, received_messages_, seen, calls, sent>>

(* oid_is_window_ready -> is_window_ready. *)
IsWindowReadyCall ==
    /\ pc = "idle"
    /\ calls < MaxCalls
    /\ calls' = calls + 1
    /\ last' = [op |-> "is_window_ready", ret |-> is_window_ready]
    /\ UNCHANGED <<server_listening, backlog, ui_running, ui_connected,
                   peer_closed, client_, net, rxbuf, toPeer,
                   received_messages_, seen, pc, frame, sent>>

(* --------------------------- the UI process --------------------------- *)

PeerAlive == client_ # nullptr /\ ui_running /\ ui_connected /\ ~peer_closed

(* The UI process connects to the port it was given. *)
PeerConnect ==
    /\ ui_running
    /\ server_listening
    /\ ~ui_connected
    /\ ui_connected' = TRUE
    /\ backlog' = backlog + 1
    /\ UNCHANGED <<server_listening, ui_running, peer_closed, client_, net,
                   rxbuf, toPeer, received_messages_, seen, pc, frame, last,
                   calls, sent>>

(* The UI sends PlotBufferRequest(name). *)
PeerSendPlotBufferRequest ==
    /\ PeerAlive
    /\ sent < MaxPeerMsgs
    /\ sent' = sent + 1
    /\ \E name \in Names : net' = net \o EncodePlotBufferRequest(name)
    /\ UNCHANGED <<server_listening, backlog, ui_running, ui_connected,
                   peer_closed, client_, rxbuf, toPeer, received_messages_,
                   seen, pc, frame, last, calls>>

(* The UI reads a GetObservedSymbols request and answers it. *)
PeerReplyObservedSymbols ==
    /\ PeerAlive
    /\ sent < MaxPeerMsgs
    /\ toPeer # <<>>
    /\ Head(toPeer) = GetObservedSymbols
    /\ toPeer' = Tail(toPeer)
    /\ sent' = sent + 1
    /\ \E syms \in SymbolLists :
          net' = net \o EncodeGetObservedSymbolsResponse(syms)
    /\ UNCHANGED <<server_listening, backlog, ui_running, ui_connected,
                   peer_closed, client_, rxbuf, received_messages_, seen, pc,
                   frame, last, calls>>

(* The UI sends a message whose tag the host's switch does not handle. *)
PeerSendOtherTag ==
    /\ PeerAlive
    /\ sent < MaxPeerMsgs
    /\ sent' = sent + 1
    /\ net' = net \o <<TagTok(GetObservedSymbols)>>
    /\ UNCHANGED <<server_listening, backlog, ui_running, ui_connected,
                   peer_closed, client_, rxbuf, toPeer, received_messages_,
                   seen, pc, frame, last, calls>>

(* The UI closes its socket while its process keeps running. *)
PeerClose ==
    /\ ui_running
    /\ ui_connected
    /\ ~peer_closed
    /\ peer_closed' = TRUE
    /\ UNCHANGED <<server_listening, backlog, ui_running, ui_connected,
                   client_, net, rxbuf, toPeer, received_messages_, seen, pc,
                   frame, last, calls, sent>>

(* The UI process exits. *)
UiExit ==
    /\ ui_running
    /\ ui_running' = FALSE
    /\ peer_closed' = (peer_closed \/ ui_connected)
    /\ UNCHANGED <<server_listening, backlog, ui_connected, client_, net,
                   rxbuf, toPeer, received_messages_, seen, pc, frame, last,
                   calls, sent>>

(* ------------------- try_read_incoming_messages ----------------------- *)

(* The names of the PlotBufferRequest messages in a token sequence. *)
RECURSIVE RequestNames(_)
RequestNames(buf) ==
    IF buf = <<>>
    THEN <<>>
    ELSE IF Head(buf).k = "tag" /\ Head(buf).v = PlotBufferRequest
                                /\ Len(buf) >= 2
         THEN <<buf[2].v>> \o RequestNames(SubSeq(buf, 3, Len(buf)))
         ELSE RequestNames(Tail(buf))

(* One pass of the loop body after the bytesAvailable() == 0 test: read    *)
(* the header, switch on it, decode and store. buf is what read() sees.    *)
(* Gives the map, the bytes left and what was decoded (type and message).  *)
ReadOne(map, buf) ==
    LET header == Head(buf).v
        body == Tail(buf)
    IN  CASE header = PlotBufferRequest ->
                LET d == decode_plot_buffer_request(body)
                IN  [map  |-> MapAssign(map, header, d.msg),
                     rest |-> d.rest,
                     type |-> header,
                     msg  |-> d.msg]
          [] header = GetObservedSymbolsResponse ->
                LET d == decode_get_observed_symbols_response(body)
                IN  [map  |-> MapAssign(map, header, d.msg),
                     rest |-> d.rest,
                     type |-> header,
                     msg  |-> d.msg]
          [] OTHER ->
                [map |-> map, rest |-> body, type |-> header, msg |-> NoMessage]

(* The buffer names of a sequence of PlotBufferRequest messages. *)
BufferNames(msgs) == [i \in 1..Len(msgs) |-> msgs[i].buffer_name]

(* fetch_message that reads again and again until the message is there. *)
AfterPump_until_stored(f, seenNow) ==
    IF f.op = "fetch_message"
    THEN IF seenNow[f.type] = <<>>
         THEN [pc |-> "pump", frame |-> [f EXCEPT !.waits = 0]]
         ELSE [pc |-> "fetch_recheck", frame |-> f]
    ELSE [pc    |-> "drain",
          frame |-> [f EXCEPT !.requests =
                              BufferNames(seenNow[PlotBufferRequest])]]

(* Where the caller goes on when try_read_incoming_messages returns. *)
AfterPump(f, seenNow) ==
    IF f.op = "fetch_message"
    THEN [pc |-> "fetch_recheck", frame |-> f]
    ELSE [pc    |-> "drain",
          frame |-> [f EXCEPT !.requests =
                              BufferNames(seenNow[PlotBufferRequest])]]

(* One iteration of the do-while loop of try_read_incoming_messages:       *)
(* waitForReadyRead (what has arrived becomes readable), the               *)
(* bytesAvailable() == 0 break, one header and its message, the loop test. *)
TryReadIteration ==
    /\ pc = "pump"
    /\ LET buffered == rxbuf \o net
           waited == [frame EXCEPT !.waits = @ + 1]
       IN  IF buffered = <<>>
           THEN /\ pc' = AfterPump(waited, seen).pc
                /\ frame' = AfterPump(waited, seen).frame
                /\ UNCHANGED <<net, rxbuf, received_messages_, seen>>
           ELSE LET r == ReadOne(received_messages_, buffered)
                    seenNow == IF r.type \in StoredTypes
                               THEN [seen EXCEPT ![r.type] = Append(@, r.msg)]
                               ELSE seen
                IN  /\ net' = <<>>
                    /\ rxbuf' = r.rest
                    /\ received_messages_' = r.map
                    /\ seen' = seenNow
                    /\ IF r.rest # <<>>
                       THEN /\ frame' = waited
                            /\ UNCHANGED pc
                       ELSE /\ pc' = AfterPump(waited, seenNow).pc
                            /\ frame' = AfterPump(waited, seenNow).frame
    /\ UNCHANGED <<server_listening, backlog, ui_running, ui_connected,
                   peer_closed, client_, toPeer, last, calls, sent>>

(* ------------------ get_observed_symbols / fetch_message -------------- *)

(* What get_observed_symbols returns for what fetch_message gave it. *)
observed_symbols_of(response) ==
    IF response # NoMessage THEN response.observed_symbols ELSE <<>>

(* The replies the peer owes or has in flight when a request is written:   *)
(* the requests it has not read yet and the responses not yet decoded.     *)
(* Each of them answers a request older than the one being written.        *)
RepliesOwed ==
    Cardinality({i \in DOMAIN toPeer : toPeer[i] = GetObservedSymbols})
        + Cardinality({i \in DOMAIN (rxbuf \o net) :
                          /\ (rxbuf \o net)[i].k = "tag"
                          /\ (rxbuf \o net)[i].v = GetObservedSymbolsResponse})

(* get_observed_symbols up to fetch_message's first try_get_stored_message:*)
(* the assert, the GetObservedSymbols request written to client_, and the  *)
(* immediate return when the response is already stored.                   *)
GetObservedSymbolsCall ==
    /\ pc = "idle"
    /\ calls < MaxCalls
    /\ calls' = calls + 1
    /\ IF client_ = nullptr
       THEN /\ pc' = "aborted"
            /\ last' = Aborted("get_observed_symbols")
            /\ UNCHANGED <<toPeer, received_messages_, seen, frame>>
       ELSE /\ toPeer' = IF peer_closed
                         THEN toPeer
                         ELSE Append(toPeer, GetObservedSymbols)
            /\ LET r == try_get_stored_message(received_messages_,
                                               GetObservedSymbolsResponse)
               IN  IF r.result # NoMessage
                   THEN /\ received_messages_' = r.map
                        /\ seen' = [seen EXCEPT
                                       ![GetObservedSymbolsResponse] = <<>>]
                        /\ last' = [op      |-> "get_observed_symbols",
                                    ret     |-> observed_symbols_of(r.result),
                                    fetched |-> r.result,
                                    stored  |-> TRUE,
                                    pumps   |-> 0,
                                    owed    |-> RepliesOwed,
                                    arrived |-> <<>>]
                        /\ UNCHANGED <<pc, frame>>
                   ELSE /\ pc' = "pump"
                        /\ frame' = [op    |-> "fetch_message",
                                     type  |-> GetObservedSymbolsResponse,
                                     pumps |-> 1,
                                     owed  |-> RepliesOwed,
                                     waits |-> 0]
                        /\ UNCHANGED <<received_messages_, seen, last>>
    /\ UNCHANGED <<server_listening, backlog, ui_running, ui_connected,
                   peer_closed, client_, net, rxbuf, sent>>

(* fetch_message that reads again while the message is missing. *)
FetchRecheck_retry ==
    /\ pc = "fetch_recheck"
    /\ LET r == try_get_stored_message(received_messages_, frame.type)
       IN  IF r.result = NoMessage /\ frame.pumps < 2
           THEN /\ pc' = "pump"
                /\ frame' = [frame EXCEPT !.pumps = @ + 1]
                /\ UNCHANGED <<received_messages_, seen, last>>
           ELSE /\ received_messages_' = r.map
                /\ seen' = [seen EXCEPT ![frame.type] = <<>>]
                /\ last' = [op      |-> "get_observed_symbols",
                            ret     |-> observed_symbols_of(r.result),
                            fetched |-> r.result,
                            stored  |-> FALSE,
                            pumps   |-> frame.pumps,
                            owed    |-> frame.owed,
                            arrived |-> seen[frame.type]]
                /\ pc' = "idle"
                /\ frame' = NoFrame
    /\ UNCHANGED <<server_listening, backlog, ui_running, ui_connected,
                   peer_closed, client_, net, rxbuf, toPeer, calls, sent>>

(* fetch_message after its one try_read_incoming_messages: the second      *)
(* try_get_stored_message, and get_observed_symbols' return.               *)
FetchRecheck ==
    /\ pc = "fetch_recheck"
    /\ LET r == try_get_stored_message(received_messages_, frame.type)
       IN  /\ received_messages_' = r.map
           /\ seen' = IF r.result # NoMessage
                      THEN [seen EXCEPT ![frame.type] = <<>>]
                      ELSE seen
           /\ last' = [op      |-> "get_observed_symbols",
                       ret     |-> observed_symbols_of(r.result),
                       fetched |-> r.result,
                       stored  |-> FALSE,
                       pumps   |-> frame.pumps,
                       owed    |-> frame.owed,
                       arrived |-> seen[frame.type]]
    /\ pc' = "idle"
    /\ frame' = NoFrame
    /\ UNCHANGED <<server_listening, backlog, ui_running, ui_connected,
                   peer_closed, client_, net, rxbuf, toPeer, calls, sent>>

(* --------------------------- run_event_loop --------------------------- *)

(* run_event_loop without its try_read_incoming_messages. *)
RunEventLoopCall_noread ==
    /\ pc = "idle"
    /\ calls < MaxCalls
    /\ calls' = calls + 1
    /\ pc' = "drain"
    /\ frame' = [op       |-> "run_event_loop",
                 waits    |-> 0,
                 cbs      |-> <<>>,
                 requests |-> BufferNames(seen[PlotBufferRequest]),
                 pending  |-> BufferNames(seen[PlotBufferRequest])
                                 \o RequestNames(net)]
    /\ UNCHANGED <<server_listening, backlog, ui_running, ui_connected,
                   peer_closed, client_, net, rxbuf, toPeer,
                   received_messages_, seen, last, sent>>

(* run_event_loop's entry: try_read_incoming_messages(200) and its assert. *)
RunEventLoopCall ==
    /\ pc = "idle"
    /\ calls < MaxCalls
    /\ calls' = calls + 1
    /\ IF client_ = nullptr
       THEN /\ pc' = "aborted"
            /\ last' = Aborted("run_event_loop")
            /\ UNCHANGED frame
       ELSE /\ pc' = "pump"
            /\ frame' = [op       |-> "run_event_loop",
                         waits    |-> 0,
                         cbs      |-> <<>>,
                         requests |-> <<>>,
                         pending  |-> BufferNames(seen[PlotBufferRequest])
                                          \o RequestNames(net)]
            /\ UNCHANGED last
    /\ UNCHANGED <<server_listening, backlog, ui_running, ui_connected,
                   peer_closed, client_, net, rxbuf, toPeer,
                   received_messages_, seen, sent>>

(* One turn of run_event_loop's while loop: try_get_stored_message, then   *)
(* either plot_callback_ with the buffer name, or the return.              *)
PollDrain ==
    /\ pc = "drain"
    /\ LET r == try_get_stored_message(received_messages_, PlotBufferRequest)
       IN  IF r.result # NoMessage
           THEN /\ received_messages_' = r.map
                /\ seen' = [seen EXCEPT ![PlotBufferRequest] = <<>>]
                /\ frame' = [frame EXCEPT
                                !.cbs = Append(@, r.result.buffer_name)]
                /\ UNCHANGED <<pc, last>>
           ELSE /\ last' = [op       |-> "run_event_loop",
                            cbs      |-> frame.cbs,
                            requests |-> frame.requests,
                            pending  |-> frame.pending,
                            unread   |-> RequestNames(net),
                            left     |-> EntriesOf(received_messages_,
                                                   PlotBufferRequest)]
                /\ pc' = "idle"
                /\ frame' = NoFrame
                /\ UNCHANGED <<received_messages_, seen>>
    /\ UNCHANGED <<server_listening, backlog, ui_running, ui_connected,
                   peer_closed, client_, net, rxbuf, toPeer, calls, sent>>

(* ------------------------ oid_cleanup / ~OidBridge -------------------- *)

(* ui_proc_.kill() that leaves alone a process that never connected. *)
kill_connected_only(running) == running /\ client_ = nullptr

(* ~OidBridge: ui_proc_.kill(). The process is no longer running. *)
kill(running) == FALSE

(* oid_cleanup on a live handle: the unique_ptr deletes the OidBridge.     *)
(* ~OidBridge kills the UI process; then the members go: the map, server_  *)
(* (which stops listening and deletes the accepted socket, its child) and  *)
(* ui_proc_.                                                               *)
CleanupCall ==
    /\ pc = "idle"
    /\ calls < MaxCalls
    /\ calls' = calls + 1
    /\ ui_running' = kill(ui_running)
    /\ peer_closed' = (peer_closed \/ ui_connected)
    /\ server_listening' = FALSE
    /\ backlog' = 0
    /\ net' = <<>>
    /\ rxbuf' = <<>>
    /\ toPeer' = <<>>
    /\ received_messages_' = {}
    /\ seen' = [t \in StoredTypes |-> <<>>]
    /\ pc' = "destroyed"
    /\ last' = [op          |-> "cleanup",
                was_running |-> ui_running,
                had_client  |-> client_ # nullptr]
    /\ UNCHANGED <<ui_connected, client_, frame, sent>>

(* oid_cleanup on a handle that oid_cleanup has already deleted: the       *)
(* unique_ptr deletes the object a second time, which is undefined; the    *)
(* process either goes on as it was or ends there.                         *)
CleanupAgain ==
    /\ pc = "destroyed"
    /\ calls < MaxCalls
    /\ calls' = calls + 1
    /\ \/ /\ pc' = "destroyed"
          /\ last' = [op          |-> "cleanup",
                      was_running |-> ui_running,
                      had_client  |-> FALSE]
       \/ /\ pc' = "aborted"
          /\ last' = Aborted("cleanup")
    /\ UNCHANGED <<server_listening, backlog, ui_running, ui_connected,
                   peer_closed, client_, net, rxbuf, toPeer,
                   received_messages_, seen, frame, sent>>

(* ------------------- fixed-width integer arithmetic ------------------- *)

(* Integers of the boundary are kept as little-endian bytes, so that a     *)
(* product keeps exactly the bytes its C++ type holds.                     *)
Byte == 256

(* sizeof(int). *)
IntBytes == 4

(* sizeof(std::size_t). *)
SizeBytes == 8

(* Bytes that hold stride * height * channels * element_size exactly. *)
ExactBytes == 16

(* n >= 0 as k little-endian bytes. *)
RECURSIVE ToBytes(_, _)
ToBytes(n, k) ==
    IF k = 0 THEN <<>> ELSE <<n % Byte>> \o ToBytes(n \div Byte, k - 1)

RECURSIVE SumOver(_, _, _, _)
SumOver(S, a, b, i) ==
    IF S = {}
    THEN 0
    ELSE LET j == CHOOSE e \in S : TRUE
         IN  a[j] * b[i - j + 1] + SumOver(S \ {j}, a, b, i)

(* Schoolbook multiplication from byte i on, keeping bytes i..k. *)
RECURSIVE MulFrom(_, _, _, _, _)
MulFrom(a, b, k, i, carry) ==
    IF i > k
    THEN <<>>
    ELSE LET idx == {j \in 1..i : j <= Len(a) /\ i - j + 1 <= Len(b)}
             t == SumOver(idx, a, b, i) + carry
         IN  <<t % Byte>> \o MulFrom(a, b, k, i + 1, t \div Byte)

(* The low k bytes of a * b: the product modulo 2^(8k). *)
Mul(a, b, k) == MulFrom(a, b, k, 1, 0)

(* a < b, for unsigned values of one width. *)
RECURSIVE Less(_, _)
Less(a, b) ==
    IF a = <<>>
    THEN FALSE
    ELSE LET n == Len(a)
         IN  IF a[n] # b[n]
             THEN a[n] < b[n]
             ELSE Less(SubSeq(a, 1, n - 1), SubSeq(b, 1, n - 1))

(* The value of unsigned bytes a, widened with zeros to k bytes. *)
Widen(a, k) == a \o [i \in 1..(k - Len(a)) |-> 0]

(* static_cast<size_t>(int): the sign bit fills the upper bytes. *)
int_to_size_t(a) ==
    a \o [i \in 1..(SizeBytes - IntBytes) |->
             IF a[IntBytes] >= Byte \div 2 THEN Byte - 1 ELSE 0]

(* int * int as the multiply instruction computes it: the low 32 bits. *)
int_mul(a, b) == Mul(a, b, IntBytes)

(* int * int that leaves the range of int (operands are not negative). *)
int_mul_overflows(a, b) ==
    Widen(int_mul(a, b), SizeBytes) # Mul(a, b, SizeBytes)
        \/ int_mul(a, b)[IntBytes] >= Byte \div 2

(* ----------------------- oid_plot_buffer ------------------------------ *)

BoolTok(b) == [k |-> "bool", v |-> b]
IntTok(n) == [k |-> "int", v |-> n]
TypeTok(t) == [k |-> "type", v |-> t]
(* A raw buffer; where its content is not modelled, its length. *)
BufTok(buff) == [k |-> "buf", v |-> buff]

(* BufferType values and type_size. *)
BufferTypes == {"UnsignedByte", "Float32"}
type_size(t) == IF t = "Float32" THEN 4 ELSE 1

(* The keys oid_plot_buffer requires, in the order it checks them. *)
RequiredFields_nostride ==
    <<"variable_name", "display_name", "pointer", "width", "height",
      "channels", "type", "pixel_layout">>

RequiredFields ==
    <<"variable_name", "display_name", "pointer", "width", "height",
      "channels", "type", "row_stride", "pixel_layout">>

(* The keys whose type CHECK_FIELD_TYPE checks, in that order. *)
TypedFields ==
    <<"variable_name", "display_name", "width", "height", "channels", "type",
      "row_stride", "pixel_layout">>

(* The optional key. *)
transpose_buffer == "transpose_buffer"

(* The keys oid_plot_buffer looks up in the metadata dict. *)
AllFields ==
    {"variable_name", "display_name", "pointer", "width", "height",
     "channels", "type", "row_stride", "pixel_layout", transpose_buffer}

(* A metadata object as the host hands it over: whether it is a dict, the  *)
(* keys it has, the keys whose value has the type the boundary expects     *)
(* (for "pointer": a memoryview), whether the view's pointer is null, and  *)
(* the values.                                                             *)
BaseMetadata ==
    [is_dict          |-> TRUE,
     present          |-> AllFields,
     well_typed       |-> AllFields,
     ptr_null         |-> FALSE,
     variable_name    |-> "buf",
     display_name     |-> "disp",
     pixel_layout     |-> "rgba",
     transpose_buffer |-> TRUE,
     width            |-> 2,
     height           |-> 10,
     channels         |-> 3,
     row_stride       |-> 4,
     type             |-> "Float32",
     buff_size        |-> 480]

Sized(stride, height, channels, type, len) ==
    [BaseMetadata EXCEPT !.row_stride = stride, !.height = height,
                         !.channels = channels, !.type = type,
                         !.buff_size = len]

(* Well-formed metadata around the size check. *)
SizeInputs ==
    {Sized(4, 10, 3, "Float32", len) : len \in {479, 480, 481}}
        \cup {Sized(0, 10, 3, "Float32", 0),
              Sized(65536, 65536, 1, "UnsignedByte", 16),
              Sized(32768, 65536, 1, "UnsignedByte", 16),
              [BaseMetadata EXCEPT !.present = AllFields \ {transpose_buffer}]}

(* Metadata with one defect. *)
DefectInputs ==
    {[BaseMetadata EXCEPT !.is_dict = FALSE],
     [BaseMetadata EXCEPT !.ptr_null = TRUE]}
        \cup {[BaseMetadata EXCEPT !.present = AllFields \ {f}] :
                 f \in AllFields \ {transpose_buffer}}
        \cup {[BaseMetadata EXCEPT !.well_typed = AllFields \ {f}] :
                 f \in AllFields}

PlotInputs == SizeInputs \cup DefectInputs

(* The checks of oid_plot_buffer on the metadata object, in the code's     *)
(* order: the dict check, the type of the optional key, the presence of    *)
(* the required keys, their types, the memoryview check. Each failing      *)
(* check raises and returns.                                               *)
plot_buffer_metadata_error(md) ==
    IF ~md.is_dict
    THEN "not_a_dict"
    ELSE IF transpose_buffer \in md.present /\ transpose_buffer \notin md.well_typed
    THEN "wrong_type"
    ELSE IF \E i \in 1..Len(RequiredFields) : RequiredFields[i] \notin md.present
    THEN "missing_field"
    ELSE IF \E i \in 1..Len(TypedFields) : TypedFields[i] \notin md.well_typed
    THEN "wrong_type"
    ELSE IF "pointer" \notin md.well_typed
    THEN "not_a_memoryview"
    ELSE "none"

(* buff_stride * buff_height * buff_channels, in int. *)
int_product(md) ==
    int_mul(int_mul(ToBytes(md.row_stride, IntBytes),
                    ToBytes(md.height, IntBytes)),
            ToBytes(md.channels, IntBytes))

(* The product leaves the range of int: signed overflow. *)
int_product_overflows(md) ==
    \/ int_mul_overflows(ToBytes(md.row_stride, IntBytes),
                         ToBytes(md.height, IntBytes))
    \/ int_mul_overflows(int_mul(ToBytes(md.row_stride, IntBytes),
                                 ToBytes(md.height, IntBytes)),
                         ToBytes(md.channels, IntBytes))

(* buff_size_expected: the int product cast to size_t, times type_size. *)
buff_size_expected(md) ==
    Mul(int_to_size_t(int_product(md)),
        ToBytes(type_size(md.type), SizeBytes), SizeBytes)

(* stride * height * channels * element_size as a number. *)
required_size(md) ==
    Mul(Mul(Mul(ToBytes(md.row_stride, IntBytes), ToBytes(md.height, IntBytes),
                ExactBytes),
            ToBytes(md.channels, IntBytes), ExactBytes),
        ToBytes(type_size(md.type), IntBytes), ExactBytes)

(* if (buff_size < buff_size_expected). *)
buff_size_too_short(buff_size, expected) == Less(buff_size, expected)

(* The checks after the sizes are computed: null pointer, short buffer. *)
plot_buffer_size_error(md) ==
    IF md.ptr_null
    THEN "null_pointer"
    ELSE IF buff_size_too_short(ToBytes(md.buff_size, SizeBytes),
                                buff_size_expected(md))
    THEN "short_buffer"
    ELSE "none"

(* The transpose flag passed on: false unless the key is there. *)
transpose_of(md) == transpose_buffer \in md.present /\ md.transpose_buffer

(* OidBridge::plot_buffer with width and height pushed the other way round.*)
PlotBufferContentsMessage_swapped(variable_name, display_name, pixel_layout, transpose, width, height, channels, stride, type, buff) ==
    <<TagTok(PlotBufferContents), StrTok(variable_name),
      StrTok(display_name), StrTok(pixel_layout), BoolTok(transpose),
      IntTok(height), IntTok(width), IntTok(channels), IntTok(stride),
      TypeTok(type), BufTok(buff)>>

(* OidBridge::plot_buffer: what the MessageComposer is given, in order. *)
PlotBufferContentsMessage(variable_name, display_name, pixel_layout, transpose, width, height, channels, stride, type, buff) ==
    <<TagTok(PlotBufferContents), StrTok(variable_name),
      StrTok(display_name), StrTok(pixel_layout), BoolTok(transpose),
      IntTok(width), IntTok(height), IntTok(channels), IntTok(stride),
      TypeTok(type), BufTok(buff)>>

(* The return of a plot_buffer call the boundary has rejected. *)
PlotRejected(md, e) ==
    [op |-> "plot_buffer", md |-> md, error |-> e, msg |-> <<>>,
     delivered |-> FALSE]

(* What the checks of oid_plot_buffer find for each input. *)
PlotChecks ==
    [md \in PlotInputs |->
        [metadata_error |-> plot_buffer_metadata_error(md),
         overflows      |-> int_product_overflows(md),
         size_error     |-> plot_buffer_size_error(md)]]

(* The call ends the process. *)
PlotBufferAborts ==
    /\ last' = Aborted("plot_buffer")
    /\ pc' = "aborted"
    /\ UNCHANGED toPeer

(* OidBridge::plot_buffer: the message is composed and sent to client_.    *)
(* send on a null client_ is undefined: the call ends the process or       *)
(* returns with nothing written. On a socket whose peer has gone the       *)
(* write reaches nobody.                                                   *)
plot_buffer(md) ==
    \/ /\ client_ = nullptr
       /\ PlotBufferAborts
    \/ /\ toPeer' = IF client_ = nullptr \/ peer_closed
                     THEN toPeer
                     ELSE Append(toPeer, PlotBufferContents)
       /\ last' = [op        |-> "plot_buffer",
                   md        |-> md,
                   error     |-> "none",
                   msg       |-> PlotBufferContentsMessage(
                                     md.variable_name, md.display_name,
                                     md.pixel_layout, transpose_of(md),
                                     md.width, md.height, md.channels,
                                     md.row_stride, md.type, md.buff_size),
                   delivered |-> client_ # nullptr /\ ~peer_closed]
       /\ UNCHANGED pc

(* oid_plot_buffer from the null check and the size check on. *)
PlotBufferSizeChecked(md) ==
    IF PlotChecks[md].size_error # "none"
    THEN /\ last' = PlotRejected(md, PlotChecks[md].size_error)
         /\ UNCHANGED <<pc, toPeer>>
    ELSE plot_buffer(md)

(* oid_plot_buffer and, when every check passes, OidBridge::plot_buffer.   *)
(* A product that leaves the range of int is undefined: the multiplication *)
(* wraps, or the build traps it.                                           *)
PlotBufferCall ==
    /\ pc = "idle"
    /\ calls < MaxCalls
    /\ calls' = calls + 1
    /\ \E md \in PlotInputs :
          IF PlotChecks[md].metadata_error # "none"
          THEN /\ last' = PlotRejected(md, PlotChecks[md].metadata_error)
               /\ UNCHANGED <<pc, toPeer>>
          ELSE IF PlotChecks[md].overflows
          THEN PlotBufferAborts \/ PlotBufferSizeChecked(md)
          ELSE PlotBufferSizeChecked(md)
    /\ UNCHANGED <<server_listening, backlog, ui_running, ui_connected,
                   peer_closed, client_, net, rxbuf, received_messages_,
                   seen, frame, sent>>

(* ------------------- oid_set_available_symbols ------------------------ *)

(* The lists the host passes. *)
AvailableLists == {<<>>, <<"a", "b">>, <<"b", "a">>}

(* set_available_symbols that pushes the symbols last to first. *)
SetAvailableSymbolsMessage_reversed(available_vars) ==
    <<TagTok(SetAvailableSymbols), CntTok(Len(available_vars))>>
        \o [i \in 1..Len(available_vars) |->
               StrTok(available_vars[Len(available_vars) + 1 - i])]

(* set_available_symbols: push(SetAvailableSymbols), push(available_vars). *)
SetAvailableSymbolsMessage(available_vars) ==
    <<TagTok(SetAvailableSymbols), CntTok(Len(available_vars))>>
        \o [i \in 1..Len(available_vars) |-> StrTok(available_vars[i])]

(* oid_set_available_symbols -> set_available_symbols: the list is copied  *)
(* in order, the assert on client_, one message composed and sent.         *)
SetAvailableSymbolsCall ==
    /\ pc = "idle"
    /\ calls < MaxCalls
    /\ calls' = calls + 1
    /\ \E available_vars \in AvailableLists :
          IF client_ = nullptr
          THEN /\ pc' = "aborted"
               /\ last' = Aborted("set_available_symbols")
               /\ UNCHANGED toPeer
          ELSE /\ toPeer' = IF peer_closed
                            THEN toPeer
                            ELSE Append(toPeer, SetAvailableSymbols)
               /\ last' = [op        |-> "set_available_symbols",
                           arg       |-> available_vars,
                           msg       |-> SetAvailableSymbolsMessage(available_vars),
                           delivered |-> ~peer_closed]
               /\ UNCHANGED pc
    /\ UNCHANGED <<server_listening, backlog, ui_running, ui_connected,
                   peer_closed, client_, net, rxbuf, received_messages_,
                   seen, frame, sent>>

(* ---------------------- the codec, byte by byte ----------------------- *)

(* Strings and buffers are sequences of bytes; 0 is a byte like any other. *)
MaxStrLen == 2
MaxSymbols == 2
StringBytes == {0, 97, 255}

SeqsUpTo(S, n) == UNION {[1..k -> S] : k \in 0..n}

ByteStrings == SeqsUpTo(StringBytes, MaxStrLen)

(* The symbols of the sequences: the empty string, one with a zero byte. *)
SymbolStrings == {<<>>, <<0, 97>>, <<255>>}

(* sizeof(MessageType), sizeof(BufferType): enums over int. *)
TagBytes == 4

(* The number that little-endian bytes hold. *)
RECURSIVE FromBytes(_)
FromBytes(b) == IF b = <<>> THEN 0 ELSE Head(b) + Byte * FromBytes(Tail(b))

(* MessageType and BufferType as the numbers on the wire. *)
MessageTypes ==
    <<GetObservedSymbols, GetObservedSymbolsResponse, SetAvailableSymbols,
      PlotBufferContents, PlotBufferRequest>>

message_type_value(t) == (CHOOSE i \in 1..Len(MessageTypes) : MessageTypes[i] = t) - 1
message_type_of(n) == MessageTypes[n + 1]

buffer_type_value(t) == IF t = "Float32" THEN 5 ELSE 0
buffer_type_of(n) == IF n = 5 THEN "Float32" ELSE "UnsignedByte"

(* MessageComposer: the bytes of one pushed value. Strings and buffers go  *)
(* out as their length and then their bytes, a sequence as its count.      *)
TokenBytes(tok) ==
    CASE tok.k = "tag"  -> ToBytes(message_type_value(tok.v), TagBytes)
      [] tok.k = "str"  -> ToBytes(Len(tok.v), SizeBytes) \o tok.v
      [] tok.k = "cnt"  -> ToBytes(tok.v, SizeBytes)
      [] tok.k = "bool" -> <<IF tok.v THEN 1 ELSE 0>>
      [] tok.k = "int"  -> ToBytes(tok.v, IntBytes)
      [] tok.k = "type" -> ToBytes(buffer_type_value(tok.v), TagBytes)
      [] tok.k = "buf"  -> ToBytes(Len(tok.v), SizeBytes) \o tok.v

RECURSIVE Serialize(_)
Serialize(toks) ==
    IF toks = <<>> THEN <<>> ELSE TokenBytes(Head(toks)) \o Serialize(Tail(toks))

Drop(b, n) == SubSeq(b, n + 1, Len(b))

(* MessageDecoder::read of one value of the given kind: the value as a     *)
(* token, and the bytes after it.                                          *)
RECURSIVE ReadStrings(_, _)
ReadStrings(n, b) ==
    IF n = 0
    THEN [tokens |-> <<>>, rest |-> b]
    ELSE LET len == FromBytes(SubSeq(b, 1, SizeBytes))
             r == ReadStrings(n - 1, Drop(b, SizeBytes + len))
         IN  [tokens |-> <<StrTok(SubSeq(b, SizeBytes + 1, SizeBytes + len))>>
                            \o r.tokens,
              rest   |-> r.rest]

ReadField(kind, b) ==
    CASE kind = "str" ->
            ReadStrings(1, b)
      [] kind = "strseq" ->
            LET n == FromBytes(SubSeq(b, 1, SizeBytes))
                r == ReadStrings(n, Drop(b, SizeBytes))
            IN  [tokens |-> <<CntTok(n)>> \o r.tokens, rest |-> r.rest]
      [] kind = "bool" ->
            [tokens |-> <<BoolTok(b[1] # 0)>>, rest |-> Drop(b, 1)]
      [] kind = "int" ->
            [tokens |-> <<IntTok(FromBytes(SubSeq(b, 1, IntBytes)))>>,
             rest   |-> Drop(b, IntBytes)]
      [] kind = "type" ->
            [tokens |-> <<TypeTok(buffer_type_of(
                                      FromBytes(SubSeq(b, 1, TagBytes))))>>,
             rest   |-> Drop(b, TagBytes)]
      [] kind = "buf" ->
            LET len == FromBytes(SubSeq(b, 1, SizeBytes))
            IN  [tokens |-> <<BufTok(SubSeq(b, SizeBytes + 1, SizeBytes + len))>>,
                 rest   |-> Drop(b, SizeBytes + len)]

RECURSIVE ReadFields(_, _)
ReadFields(kinds, b) ==
    IF kinds = <<>>
    THEN [tokens |-> <<>>, rest |-> b]
    ELSE LET f == ReadField(Head(kinds), b)
             r == ReadFields(Tail(kinds), f.rest)
         IN  [tokens |-> f.tokens \o r.tokens, rest |-> r.rest]

(* The payload fields each MessageType declares. *)
PayloadOf(t) ==
    CASE t = GetObservedSymbols -> <<>>
      [] t = GetObservedSymbolsResponse -> <<"strseq">>
      [] t = SetAvailableSymbols -> <<"strseq">>
      [] t = PlotBufferRequest -> <<"str">>
      [] t = PlotBufferContents ->
            <<"str", "str", "str", "bool", "int", "int", "int", "int",
              "type", "buf">>

(* The messages, each with its MessageType and its payload. *)
NoPayload == [none |-> TRUE]
SetAvailableSymbolsBody(syms) == [available_vars |-> syms]

PlotBufferContentsBodies ==
    [variable_name : {<<>>, <<97, 0>>},
     display_name  : {<<97>>},
     pixel_layout  : {<<255>>},
     transpose     : BOOLEAN,
     width         : {2},
     height        : {10},
     channels      : {3},
     stride        : {4},
     type          : BufferTypes,
     buffer        : {<<>>, <<1, 0, 255>>}]

CodecMessages ==
    {[type |-> GetObservedSymbols, body |-> NoPayload]}
        \cup {[type |-> PlotBufferRequest, body |-> PlotBufferRequestMessage(s)] :
                 s \in ByteStrings}
        \cup {[type |-> GetObservedSymbolsResponse,
               body |-> GetObservedSymbolsResponseMessage(l)] :
                 l \in SeqsUpTo(SymbolStrings, MaxSymbols)}
        \cup {[type |-> SetAvailableSymbols, body |-> SetAvailableSymbolsBody(l)] :
                 l \in SeqsUpTo(SymbolStrings, MaxSymbols)}
        \cup {[type |-> PlotBufferContents, body |-> b] :
                 b \in PlotBufferContentsBodies}

(* What each side pushes for a message. *)
EncodeMessage(m) ==
    CASE m.type = GetObservedSymbols ->
            <<TagTok(GetObservedSymbols)>>
      [] m.type = PlotBufferRequest ->
            EncodePlotBufferRequest(m.body.buffer_name)
      [] m.type = GetObservedSymbolsResponse ->
            EncodeGetObservedSymbolsResponse(m.body.observed_symbols)
      [] m.type = SetAvailableSymbols ->
            SetAvailableSymbolsMessage(m.body.available_vars)
      [] m.type = PlotBufferContents ->
            PlotBufferContentsMessage(
                m.body.variable_name, m.body.display_name,
                m.body.pixel_layout, m.body.transpose, m.body.width,
                m.body.height, m.body.channels, m.body.stride, m.body.type,
                m.body.buffer)

(* The payload each side builds from the values it has read. *)
DecodePayload(t, toks) ==
    CASE t = GetObservedSymbols -> NoPayload
      [] t = PlotBufferRequest -> decode_plot_buffer_request(toks).msg
      [] t = GetObservedSymbolsResponse ->
            decode_get_observed_symbols_response(toks).msg
      [] t = SetAvailableSymbols ->
            SetAvailableSymbolsBody([i \in 1..toks[1].v |-> toks[i + 1].v])
      [] t = PlotBufferContents ->
            [variable_name |-> toks[1].v,
             display_name  |-> toks[2].v,
             pixel_layout  |-> toks[3].v,
             transpose     |-> toks[4].v,
             width         |-> toks[5].v,
             height        |-> toks[6].v,
             channels      |-> toks[7].v,
             stride        |-> toks[8].v,
             type          |-> toks[9].v,
             buffer        |-> toks[10].v]

(* Read the header, then the payload its tag declares. *)
decode_one(b) ==
    LET header == message_type_of(FromBytes(SubSeq(b, 1, TagBytes)))
        f == ReadFields(PayloadOf(header), Drop(b, TagBytes))
    IN  [msg  |-> [type |-> header, body |-> DecodePayload(header, f.tokens)],
         rest |-> f.rest]

(* One message is encoded onto the wire and decoded at the other end. *)
InitCodec ==
    /\ server_listening = FALSE
    /\ backlog = 0
    /\ ui_running = TRUE
    /\ ui_connected = TRUE
    /\ peer_closed = FALSE
    /\ client_ = socket
    /\ net = <<>>
    /\ rxbuf = <<>>
    /\ toPeer = <<>>
    /\ received_messages_ = {}
    /\ seen = [t \in StoredTypes |-> <<>>]
    /\ pc = "encode"
    /\ frame \in CodecMessages
    /\ last = [op |-> "none"]
    /\ calls = 0
    /\ sent = 0

EncodeStep ==
    /\ pc = "encode"
    /\ net' = Serialize(EncodeMessage(frame))
    /\ pc' = "decode"
    /\ UNCHANGED <<server_listening, backlog, ui_running, ui_connected,
                   peer_closed, client_, rxbuf, toPeer, received_messages_,
                   seen, frame, last, calls, sent>>

DecodeStep ==
    /\ pc = "decode"
    /\ last' = [op |-> "decode", msg |-> decode_one(net).msg, wire |-> net]
    /\ net' = decode_one(net).rest
    /\ pc' = "decoded"
    /\ UNCHANGED <<server_listening, backlog, ui_running, ui_connected,
                   peer_closed, client_, rxbuf, toPeer, received_messages_,
                   seen, frame, calls, sent>>

NextCodec ==
    \/ EncodeStep
    \/ DecodeStep

SpecCodec == InitCodec /\ [][NextCodec]_vars

(* -------------------- host threads and PyGILRAII ---------------------- *)

(* Host threads that call the entry points. In this part pc gives each     *)
(* thread's position and frame the holder of the interpreter lock.         *)
NumThreads == 2
Threads == 1..NumThreads

(* No thread holds the lock. *)
NoThread == 0
free == NoThread

(* The functions the library exports. *)
EntryPoints ==
    {"oid_initialize", "oid_cleanup", "oid_exec", "oid_is_window_ready",
     "oid_get_observed_buffers", "oid_set_available_symbols",
     "oid_run_event_loop", "oid_plot_buffer"}

(* The entry point whose Bridge method calls back into the host. *)
CallsBack(fn) == fn = "oid_run_event_loop"

InHost == [at |-> "host", fn |-> "none"]

(* An entry point whose first statement does not take the lock. *)
PyGILRAII_noacquire(holder, t) == holder

(* PyGILRAII(): PyGILState_Ensure; the calling thread holds the lock. *)
PyGILRAII(holder, t) == t

(* ~PyGILRAII(): PyGILState_Release; the lock is given up. *)
PyGILRAII_destroy(holder, t) == free

InitThreads ==
    /\ server_listening = FALSE
    /\ backlog = 0
    /\ ui_running = FALSE
    /\ ui_connected = FALSE
    /\ peer_closed = FALSE
    /\ client_ = nullptr
    /\ net = <<>>
    /\ rxbuf = <<>>
    /\ toPeer = <<>>
    /\ received_messages_ = {}
    /\ seen = [t \in StoredTypes |-> <<>>]
    /\ pc = [t \in Threads |-> InHost]
    /\ frame = [gil |-> free]
    /\ last = [op |-> "none"]
    /\ calls = 0
    /\ sent = 0

ThreadFrame == <<server_listening, backlog, ui_running, ui_connected,
                 peer_closed, client_, net, rxbuf, toPeer,
                 received_messages_, seen, last, sent>>

(* A thread calls an entry point: the PyGILRAII at its top is constructed  *)
(* once the lock is free.                                                  *)
EnterEntryPoint ==
    \E t \in Threads, fn \in EntryPoints :
        /\ pc[t] = InHost
        /\ calls < MaxCalls
        /\ frame.gil = free
        /\ frame' = [gil |-> PyGILRAII(frame.gil, t)]
        /\ pc' = [pc EXCEPT ![t] = [at |-> "entered", fn |-> fn]]
        /\ calls' = calls + 1
        /\ UNCHANGED ThreadFrame

(* The checks at the top fail (a null handle, an object of the wrong       *)
(* kind): RAISE_PY_EXCEPTION and return, which destroys the PyGILRAII.     *)
EarlyErrorReturn ==
    \E t \in Threads :
        /\ pc[t].at = "entered"
        /\ frame' = [gil |-> PyGILRAII_destroy(frame.gil, t)]
        /\ pc' = [pc EXCEPT ![t] = InHost]
        /\ UNCHANGED <<ThreadFrame, calls>>

(* The checks pass and the Bridge method is called. *)
CallBridge ==
    \E t \in Threads :
        /\ pc[t].at = "entered"
        /\ pc' = [pc EXCEPT ![t].at = "bridge"]
        /\ UNCHANGED <<ThreadFrame, frame, calls>>

(* run_event_loop calls plot_callback_, which is the host's code. *)
InvokeCallback ==
    \E t \in Threads :
        /\ pc[t].at = "bridge"
        /\ CallsBack(pc[t].fn)
        /\ pc' = [pc EXCEPT ![t].at = "callback"]
        /\ UNCHANGED <<ThreadFrame, frame, calls>>

(* Inside the callback the interpreter hands the lock to another thread,   *)
(* and takes it back before the callback goes on.                          *)
CallbackYield ==
    \E t \in Threads :
        /\ pc[t].at = "callback"
        /\ frame.gil = t
        /\ frame' = [gil |-> free]
        /\ pc' = [pc EXCEPT ![t].at = "yielded"]
        /\ UNCHANGED <<ThreadFrame, calls>>

CallbackResume ==
    \E t \in Threads :
        /\ pc[t].at = "yielded"
        /\ frame.gil = free
        /\ frame' = [gil |-> t]
        /\ pc' = [pc EXCEPT ![t].at = "callback"]
        /\ UNCHANGED <<ThreadFrame, calls>>

(* The callback returns into run_event_loop's loop. *)
CallbackReturn ==
    \E t \in Threads :
        /\ pc[t].at = "callback"
        /\ pc' = [pc EXCEPT ![t].at = "bridge"]
        /\ UNCHANGED <<ThreadFrame, frame, calls>>

(* The Bridge method returns and the entry point with it: the PyGILRAII    *)
(* is destroyed.                                                           *)
EntryPointReturn ==
    \E t \in Threads :
        /\ pc[t].at = "bridge"
        /\ frame' = [gil |-> PyGILRAII_destroy(frame.gil, t)]
        /\ pc' = [pc EXCEPT ![t] = InHost]
        /\ UNCHANGED <<ThreadFrame, calls>>

NextThreads ==
    \/ EnterEntryPoint
    \/ EarlyErrorReturn
    \/ CallBridge
    \/ InvokeCallback
    \/ CallbackYield
    \/ CallbackResume
    \/ CallbackReturn
    \/ EntryPointReturn

SpecThreads == InitThreads /\ [][NextThreads]_vars

(* ---------------------- entry points, null handle --------------------- *)

(* The entry points that take the handle oid_initialize returned. *)
HandleEntryPoints ==
    {"oid_cleanup", "oid_exec", "oid_is_window_ready",
     "oid_get_observed_buffers", "oid_set_available_symbols",
     "oid_run_event_loop", "oid_plot_buffer"}

(* A handle test that lets every handle through. *)
app_is_null_unchecked(app) == FALSE

(* if (app == nullptr), and if (!app) in oid_cleanup. *)
app_is_null(app) == app = nullptr

(* The exception the entry point raises for a null handle, and what it     *)
(* returns: 0 from oid_is_window_ready, nullptr from                       *)
(* oid_get_observed_buffers, nothing from the others.                      *)
NullHandleError(fn) ==
    [op    |-> "null_handle",
     fn    |-> fn,
     error |-> IF fn = "oid_get_observed_buffers"
               THEN "PyExc_Exception"
               ELSE "PyExc_RuntimeError",
     ret   |-> CASE fn = "oid_is_window_ready"      -> "0"
                 [] fn = "oid_get_observed_buffers" -> nullptr
                 [] OTHER                           -> "void"]

(* An entry point called with a null handle: the handle test, the          *)
(* exception and the return. oid_set_available_symbols first asserts that  *)
(* its argument is a list, which the lists the host passes are. Past the   *)
(* test the null handle would be dereferenced.                             *)
NullHandleCall ==
    /\ pc \in {"idle", "destroyed"}
    /\ calls < MaxCalls
    /\ calls' = calls + 1
    /\ \E fn \in HandleEntryPoints :
          IF app_is_null(nullptr)
          THEN /\ last' = NullHandleError(fn)
               /\ UNCHANGED pc
          ELSE /\ last' = Aborted(fn)
               /\ pc' = "aborted"
    /\ UNCHANGED <<server_listening, backlog, ui_running, ui_connected,
                   peer_closed, client_, net, rxbuf, toPeer,
                   received_messages_, seen, frame, sent>>

(* ------------------------------ Next ---------------------------------- *)

Next ==
    \/ StartCall
    \/ WaitForClient
    \/ IsWindowReadyCall
    \/ GetObservedSymbolsCall
    \/ FetchRecheck
    \/ RunEventLoopCall
    \/ TryReadIteration
    \/ PollDrain
    \/ CleanupCall
    \/ CleanupAgain
    \/ PeerConnect
    \/ PeerSendPlotBufferRequest
    \/ PeerReplyObservedSymbols
    \/ PeerSendOtherTag
    \/ PeerClose
    \/ UiExit

Spec == Init /\ [][Next]_vars

(* The host starts the bridge and sends to it; the UI connects, closes or  *)
(* exits.                                                                  *)
NextSend ==
    \/ StartCall
    \/ WaitForClient
    \/ IsWindowReadyCall
    \/ SetAvailableSymbolsCall
    \/ PlotBufferCall
    \/ NullHandleCall
    \/ PeerConnect
    \/ PeerSendPlotBufferRequest
    \/ PeerClose
    \/ UiExit

SpecSend == Init /\ [][NextSend]_vars

(* The host calls the operations that wait or loop and the UI connects     *)
(* and sends; every call in progress is carried on by the host thread that *)
(* made it, whose waits on the socket and on the server all carry a        *)
(* timeout.                                                                *)
NextLive ==
    \/ StartCall
    \/ WaitForClient
    \/ GetObservedSymbolsCall
    \/ FetchRecheck
    \/ RunEventLoopCall
    \/ TryReadIteration
    \/ PollDrain
    \/ PeerConnect
    \/ PeerSendPlotBufferRequest
    \/ PeerReplyObservedSymbols

SpecLive ==
    /\ Init
    /\ [][NextLive]_vars
    /\ WF_vars(WaitForClient)
    /\ WF_vars(TryReadIteration)
    /\ WF_vars(FetchRecheck)
    /\ WF_vars(PollDrain)

(* ------------------- the pump over the bytes of the socket ------------ *)

(* The Bridge is connected and the UI writes its messages as bytes, whole  *)
(* or in two parts. rxbuf is what the socket holds for the host to read,   *)
(* net the part of a message the UI has not written yet, frame the UI's    *)
(* account of what it has written, seen what the host has stored, in the   *)
(* order it stored it, and last what the latest turn of the loop did.      *)

(* The messages the UI writes: the two the host's switch handles, and two  *)
(* it does not, one without payload and one with.                          *)
WireMessages ==
    {[type |-> PlotBufferRequest, body |-> PlotBufferRequestMessage(<<97>>)],
     [type |-> GetObservedSymbolsResponse,
      body |-> GetObservedSymbolsResponseMessage(<< <<97>> >>)],
     [type |-> GetObservedSymbols, body |-> NoPayload],
     [type |-> SetAvailableSymbols,
      body |-> SetAvailableSymbolsBody(<< <<>> >>)]}

WireBytes(m) == Serialize(EncodeMessage(m))

(* Where a write may end: after the header, one byte before the end, at    *)
(* the end.                                                                *)
SplitPoints(m) ==
    {k \in {TagBytes, Len(WireBytes(m)) - 1, Len(WireBytes(m))} :
        k >= TagBytes}

(* A read that found fewer bytes than the value needs: the value stays as  *)
(* it was constructed and what was there is gone.                          *)
ShortRead(value) == [value |-> value, rest |-> <<>>, complete |-> FALSE]

(* The length or count at the front of b, when all of it is there and no   *)
(* more than the bytes behind it.                                          *)
SizeFits(b) ==
    /\ Len(b) >= SizeBytes
    /\ ~Less(ToBytes(Len(b) - SizeBytes, SizeBytes), SubSeq(b, 1, SizeBytes))

(* MessageDecoder::read(std::string&). *)
read_string(b) ==
    IF ~SizeFits(b)
    THEN ShortRead(<<>>)
    ELSE LET len == FromBytes(SubSeq(b, 1, SizeBytes))
         IN  [value    |-> SubSeq(b, SizeBytes + 1, SizeBytes + len),
              rest     |-> Drop(b, SizeBytes + len),
              complete |-> TRUE]

(* n strings, one after the other. *)
RECURSIVE read_strings(_, _)
read_strings(n, b) ==
    IF n = 0
    THEN [value |-> <<>>, rest |-> b, complete |-> TRUE]
    ELSE LET s == read_string(b)
             r == read_strings(n - 1, s.rest)
         IN  IF s.complete /\ r.complete
             THEN [value    |-> <<s.value>> \o r.value,
                   rest     |-> r.rest,
                   complete |-> TRUE]
             ELSE ShortRead(<<>>)

(* MessageDecoder::read(std::deque<std::string>&). *)
read_string_deque(b) ==
    IF ~SizeFits(b)
    THEN ShortRead(<<>>)
    ELSE read_strings(FromBytes(SubSeq(b, 1, SizeBytes)), Drop(b, SizeBytes))

(* client_->read(&header, sizeof(header)) into a header that starts as     *)
(* MessageType{}: the bytes that are there, up to four.                    *)
read_header(b) ==
    LET n == IF Len(b) < TagBytes THEN Len(b) ELSE TagBytes
    IN  [value |-> Widen(SubSeq(b, 1, n), TagBytes), rest |-> Drop(b, n)]

HeaderIs(header, t) == header = ToBytes(message_type_value(t), TagBytes)

(* One turn of the loop of try_read_incoming_messages on the bytes b, with *)
(* the map as it is: the header, the switch, the decoder and the store.    *)
read_one_message(map, b) ==
    LET h == read_header(b)
    IN  CASE HeaderIs(h.value, PlotBufferRequest) ->
                LET d == read_string(h.rest)
                    m == PlotBufferRequestMessage(d.value)
                IN  [map  |-> MapAssign(map, PlotBufferRequest, m),
                     rest |-> d.rest, type |-> PlotBufferRequest,
                     msg  |-> m, complete |-> d.complete]
          [] HeaderIs(h.value, GetObservedSymbolsResponse) ->
                LET d == read_string_deque(h.rest)
                    m == GetObservedSymbolsResponseMessage(d.value)
                IN  [map  |-> MapAssign(map, GetObservedSymbolsResponse, m),
                     rest |-> d.rest, type |-> GetObservedSymbolsResponse,
                     msg  |-> m, complete |-> d.complete]
          [] OTHER ->
                [map |-> map, rest |-> h.rest, type |-> "incorrect header",
                 msg |-> NoMessage, complete |-> TRUE]

InitWire ==
    /\ server_listening = TRUE
    /\ backlog = 0
    /\ ui_running = TRUE
    /\ ui_connected = TRUE
    /\ peer_closed = FALSE
    /\ client_ = socket
    /\ net = <<>>
    /\ rxbuf = <<>>
    /\ toPeer = <<>>
    /\ received_messages_ = {}
    /\ seen = [t \in StoredTypes |-> <<>>]
    /\ pc = "idle"
    /\ frame = [written |-> <<>>, in_parts |-> FALSE]
    /\ last = [op |-> "none"]
    /\ calls = 0
    /\ sent = 0

(* The UI writes a message, or the front of one. *)
WireSend ==
    /\ net = <<>>
    /\ sent < MaxPeerMsgs
    /\ sent' = sent + 1
    /\ \E m \in WireMessages :
          \E k \in SplitPoints(m) :
             /\ rxbuf' = rxbuf \o SubSeq(WireBytes(m), 1, k)
             /\ net' = Drop(WireBytes(m), k)
             /\ frame' = [written  |-> Append(frame.written, m),
                          in_parts |-> frame.in_parts
                                           \/ k < Len(WireBytes(m))]
    /\ UNCHANGED <<server_listening, backlog, ui_running, ui_connected,
                   peer_closed, client_, toPeer, received_messages_, seen,
                   pc, last, calls>>

(* The UI writes the rest of the message. *)
WireSendRest ==
    /\ net # <<>>
    /\ rxbuf' = rxbuf \o net
    /\ net' = <<>>
    /\ UNCHANGED <<server_listening, backlog, ui_running, ui_connected,
                   peer_closed, client_, toPeer, received_messages_, seen,
                   pc, frame, last, calls, sent>>

(* try_read_incoming_messages is called. *)
WirePumpCall ==
    /\ pc = "idle"
    /\ calls < MaxCalls
    /\ calls' = calls + 1
    /\ pc' = "pump"
    /\ UNCHANGED <<server_listening, backlog, ui_running, ui_connected,
                   peer_closed, client_, net, rxbuf, toPeer,
                   received_messages_, seen, frame, last, sent>>

(* One turn of its loop: the wait, the bytesAvailable() == 0 break, the    *)
(* header and its message, the loop test.                                  *)
WireReadIteration ==
    /\ pc = "pump"
    /\ IF rxbuf = <<>>
       THEN /\ pc' = "idle"
            /\ UNCHANGED <<rxbuf, received_messages_, seen, last>>
       ELSE LET r == read_one_message(received_messages_, rxbuf)
            IN  /\ rxbuf' = r.rest
                /\ received_messages_' = r.map
                /\ seen' = IF r.type \in StoredTypes
                           THEN [seen EXCEPT ![r.type] = Append(@, r.msg)]
                           ELSE seen
                /\ last' = [op |-> "read", type |-> r.type, msg |-> r.msg,
                            complete |-> r.complete]
                /\ pc' = IF r.rest # <<>> THEN "pump" ELSE "idle"
    /\ UNCHANGED <<server_listening, backlog, ui_running, ui_connected,
                   peer_closed, client_, net, toPeer, frame, calls, sent>>

NextWire ==
    \/ WireSend
    \/ WireSendRest
    \/ WirePumpCall
    \/ WireReadIteration

SpecWire == InitWire /\ [][NextWire]_vars

(* ------------------- the UI main window's image list ------------------ *)

(* MainWindow, in frame: imageList is the names of the list's items from   *)
(* the top, currentRow the list's current row counted from 1, with 0 for   *)
(* none (Qt's -1), stages_ the names that have a stage,                    *)
(* currently_selected_stage_ the name whose stage the pointer refers to,   *)
(* or nullptr. connected says whether the list's currentItemChanged signal *)
(* is delivered to buffer_selected: the connect call belongs to the        *)
(* window's initialisation, and both outcomes are kept.                    *)

MaxImages == 3

ImageNames == <<"a", "b", "c", "d", "e">>

(* The lists the window may hold when the events start: one item and one   *)
(* stage per buffer, nothing current, nothing selected.                    *)
ImageLists == {SubSeq(ImageNames, 1, n) : n \in 0..MaxImages}

ItemsOf(list) == {list[i] : i \in DOMAIN list}

(* MainWindow::buffer_selected. *)
buffer_selected(w, item) ==
    IF item = nullptr
    THEN w
    ELSE IF item \in w.stages_
    THEN [w EXCEPT !.currently_selected_stage_ = item]
    ELSE w

(* The row that becomes current when the current row is about to go: the   *)
(* one above it, else the one below it, else none.                         *)
RowAfterRemoval(list, row) ==
    IF row > 1 THEN row - 1 ELSE IF row < Len(list) THEN row + 1 ELSE 0

(* imageList->takeItem(row): the item leaves the list, the row next to it  *)
(* becomes current, and currentItemChanged goes out with the new current   *)
(* item, or with a null item when the list is left empty.                  *)
takeItem(w, row) ==
    LET next == RowAfterRemoval(w.imageList, row)
        item == IF next = 0 THEN nullptr ELSE w.imageList[next]
        taken == [w EXCEPT
                     !.imageList = SubSeq(@, 1, row - 1)
                                       \o SubSeq(@, row + 1, Len(@)),
                     !.currentRow = IF next > row THEN next - 1 ELSE next]
    IN  IF w.connected THEN buffer_selected(taken, item) ELSE taken

(* MainWindow::remove_selected_buffer, past its test and past takeItem. *)
erase_taken(w, buffer_name) ==
    LET erased == [w EXCEPT !.stages_ = @ \ {buffer_name},
                            !.removed_buffer_names_ = @ \cup {buffer_name}]
    IN  IF erased.stages_ = {}
        THEN [erased EXCEPT !.currently_selected_stage_ = nullptr]
        ELSE erased

InitUi ==
    /\ server_listening = FALSE
    /\ backlog = 0
    /\ ui_running = TRUE
    /\ ui_connected = FALSE
    /\ peer_closed = FALSE
    /\ client_ = nullptr
    /\ net = <<>>
    /\ rxbuf = <<>>
    /\ toPeer = <<>>
    /\ received_messages_ = {}
    /\ seen = [t \in StoredTypes |-> <<>>]
    /\ pc = "idle"
    /\ \E list \in ImageLists, connected \in BOOLEAN :
          frame = [imageList                 |-> list,
                   currentRow                |-> 0,
                   stages_                   |-> ItemsOf(list),
                   currently_selected_stage_ |-> nullptr,
                   removed_buffer_names_     |-> {},
                   connected                 |-> connected]
    /\ last = [op |-> "none"]
    /\ calls = 0
    /\ sent = 0

(* An item of the list becomes the current one and buffer_selected is      *)
(* called with it.                                                         *)
BufferSelected ==
    /\ pc = "idle"
    /\ calls < MaxCalls
    /\ calls' = calls + 1
    /\ \E row \in DOMAIN frame.imageList :
          /\ frame' = buffer_selected([frame EXCEPT !.currentRow = row],
                                      frame.imageList[row])
          /\ last' = [op |-> "buffer_selected", item |-> frame.imageList[row]]
    /\ UNCHANGED <<server_listening, backlog, ui_running, ui_connected,
                   peer_closed, client_, net, rxbuf, toPeer,
                   received_messages_, seen, pc, sent>>

(* MainWindow::remove_selected_buffer. With no current row takeItem gives  *)
(* a null item, and the item's data is read through it.                    *)
RemoveSelectedBuffer ==
    /\ pc = "idle"
    /\ calls < MaxCalls
    /\ calls' = calls + 1
    /\ IF Len(frame.imageList) > 0
          /\ frame.currently_selected_stage_ # nullptr
       THEN IF frame.currentRow = 0
            THEN /\ pc' = "aborted"
                 /\ last' = Aborted("remove_selected_buffer")
                 /\ UNCHANGED frame
            ELSE LET buffer_name == frame.imageList[frame.currentRow]
                 IN  /\ frame' = erase_taken(takeItem(frame, frame.currentRow),
                                             buffer_name)
                     /\ last' = [op       |-> "remove_selected_buffer",
                                 removed  |-> buffer_name,
                                 selected |-> frame.currently_selected_stage_]
                     /\ UNCHANGED pc
       ELSE /\ last' = [op       |-> "remove_selected_buffer",
                        removed  |-> nullptr,
                        selected |-> frame.currently_selected_stage_]
            /\ UNCHANGED <<pc, frame>>
    /\ UNCHANGED <<server_listening, backlog, ui_running, ui_connected,
                   peer_closed, client_, net, rxbuf, toPeer,
                   received_messages_, seen, sent>>

NextUi ==
    \/ BufferSelected
    \/ RemoveSelectedBuffer

SpecUi == InitUi /\ [][NextUi]_vars

(* ----------------------------- claims --------------------------------- *)

LastOf(q) == q[Len(q)]

(* C1: the Inbox holds at most one undelivered message per MessageType,    *)
(* and it is the most recently decoded one: of the messages of a type      *)
(* decoded since that type was last delivered, only the last is stored.    *)
C1_InboxMostRecentWins ==
    \A t \in StoredTypes :
        /\ Cardinality(EntriesOf(received_messages_, t)) <= 1
        /\ EntriesOf(received_messages_, t) =
               IF seen[t] = <<>> THEN {} ELSE {Entry(t, LastOf(seen[t]))}

(* Two different ObservedSymbolsReply messages were decoded before any     *)
(* fetch and only the second is stored.                                    *)
C1_Witness ==
    LET q == seen[GetObservedSymbolsResponse]
    IN  /\ Len(q) = 2
        /\ q[1] # q[2]
        /\ EntriesOf(received_messages_, GetObservedSymbolsResponse) =
               {Entry(GetObservedSymbolsResponse, q[2])}

(* A step that enters fetch_message(GetObservedSymbolsResponse). *)
FetchCallStep ==
    /\ pc = "idle"
    /\ calls' = calls + 1
    /\ \/ pc' = "pump" /\ frame'.op = "fetch_message"
       \/ pc' = "idle" /\ last'.op = "get_observed_symbols"

(* C2: fetch(T) with a message of type T already in the Inbox returns      *)
(* exactly that message with no read or wait on the Channel, removes it    *)
(* from the Inbox and leaves the entries of every other type unchanged.    *)
C2_FetchStoredImmediate ==
    [][ (/\ FetchCallStep
         /\ EntriesOf(received_messages_, GetObservedSymbolsResponse) # {})
        => (/\ pc' = "idle"
            /\ \E e \in EntriesOf(received_messages_,
                                  GetObservedSymbolsResponse) :
                  last'.fetched = e.msg
            /\ last'.pumps = 0
            /\ net' = net
            /\ rxbuf' = rxbuf
            /\ EntriesOf(received_messages_', GetObservedSymbolsResponse) = {}
            /\ \A t \in StoredTypes \ {GetObservedSymbolsResponse} :
                  EntriesOf(received_messages_', t) =
                      EntriesOf(received_messages_, t)) ]_vars

(* A fetch returned a stored reply at once. *)
C2_Witness ==
    /\ last.op = "get_observed_symbols"
    /\ last.stored
    /\ last.fetched # NoMessage

(* C3: fetch(T) with no message of type T in the Inbox reads the Channel   *)
(* exactly once and re-checks: it returns the message of type T that read  *)
(* stored (the last one decoded), and otherwise "not available", which     *)
(* get_observed_symbols turns into an empty sequence.                      *)
C3_FetchPumpsOnce ==
    (last.op = "get_observed_symbols" /\ ~last.stored)
        => /\ last.pumps = 1
           /\ last.fetched = IF last.arrived = <<>>
                             THEN NoMessage
                             ELSE LastOf(last.arrived)
           /\ (last.fetched = NoMessage => last.ret = <<>>)

(* A fetch found nothing stored, read once and returned what arrived. *)
C3_Witness ==
    /\ last.op = "get_observed_symbols"
    /\ ~last.stored
    /\ last.pumps = 1
    /\ last.arrived # <<>>
    /\ last.fetched = LastOf(last.arrived)

(* C11: get_observed_symbols() returns the symbols of the reply it         *)
(* fetched and an empty sequence when the fetch found none, and it does    *)
(* not fail when no peer is connected.                                     *)
C11_ObservedSymbolsOrEmpty ==
    /\ last.op = "get_observed_symbols"
           => last.ret = observed_symbols_of(last.fetched)
    /\ ~(last.op = "abort" /\ last.in = "get_observed_symbols")

(* C4: is_ready() is true if and only if the Channel is connected and the  *)
(* UI process is running.                                                  *)
C4_ReadyIffConnectedAndRunning ==
    is_window_ready <=> (ChannelState = "connected" /\ ui_running)

(* C5: once the peer has closed the accepted connection, is_ready() is     *)
(* false, also while the UI process is still running.                      *)
C5_NotReadyAfterChannelBroken ==
    (client_ # nullptr /\ peer_closed) => ~is_window_ready

(* C6: start() returns false when listen fails, when the UI process could  *)
(* not be spawned and when no peer connected within the accept window, and *)
(* returns true only when it accepted a peer.                              *)
C6_StartResult ==
    (last.op = "start")
        => /\ (last.listen_failed \/ last.spawn_failed \/ last.timed_out)
                  => ~last.ret
           /\ last.ret => last.accepted

(* start() spawned the UI process, no peer connected, and it returned      *)
(* false.                                                                  *)
C6_Witness ==
    /\ last.op = "start"
    /\ last.spawned
    /\ last.timed_out
    /\ ~last.ret

(* C7: when start() returns false, the UI process it spawned is not left   *)
(* running.                                                                *)
C7_NoProcessLeftOnFailure ==
    (last.op = "start" /\ ~last.ret) => ~(last.spawned /\ last.left_running)

(* C8: a start() after one that timed out succeeds when a peer is there to *)
(* be accepted during it.                                                  *)
C8_RetrySucceeds ==
    (last.op = "start" /\ last.retry /\ last.peer_waiting) => last.ret

(* C9 as stated: poll() invokes the callback once per PlotBufferRequest    *)
(* received, each with that request's buffer name.                         *)
C9_CallbackPerRequest ==
    (last.op = "run_event_loop") => last.cbs = last.requests

(* C9, amended: poll() invokes the callback at most once: with the buffer  *)
(* name of the most recently received PlotBufferRequest when any was       *)
(* received since the last delivery, and not at all otherwise; no          *)
(* PlotBufferRequest remains in the Inbox when it returns.                 *)
C9_CallbackForLatestRequest ==
    (last.op = "run_event_loop")
        => /\ last.cbs = IF last.requests = <<>>
                         THEN <<>>
                         ELSE <<LastOf(last.requests)>>
           /\ last.left = {}

(* poll() had two different requests to deliver and called back once, with *)
(* the second.                                                             *)
C9_Witness ==
    /\ last.op = "run_event_loop"
    /\ Len(last.requests) = 2
    /\ last.requests[1] # last.requests[2]
    /\ last.cbs = <<last.requests[2]>>

(* C10: with a single PlotBufferRequest(name) sent and nothing else        *)
(* arriving, poll() invokes the callback exactly once, with that name, and *)
(* leaves no PlotBufferRequest in the Inbox; a poll() with no request sent *)
(* invokes it zero times.                                                  *)
C10_SingleRequestOnce ==
    (last.op = "run_event_loop"
        /\ last.requests \o last.unread = last.pending)
        => /\ Len(last.pending) = 1
                  => (last.cbs = last.pending /\ last.left = {})
           /\ last.pending = <<>> => last.cbs = <<>>

(* A poll() delivered the single request that had been sent. *)
C10_Witness ==
    /\ last.op = "run_event_loop"
    /\ Len(last.pending) = 1
    /\ last.requests = last.pending
    /\ last.unread = <<>>
    /\ last.cbs = last.pending

(* C12: shutdown may be called several times, and on a Bridge that never  *)
(* started, without error: no call of it ends the host process.            *)
C12_ShutdownIdempotent ==
    ~(last.op = "abort" /\ last.in = "cleanup")

C14_ShortBufferRejected ==
    (/\ last.op = "plot_buffer"
     /\ plot_buffer_metadata_error(last.md) = "none"
     /\ ~last.md.ptr_null)
        => IF Less(Widen(ToBytes(last.md.buff_size, SizeBytes), ExactBytes),
                   required_size(last.md))
           THEN last.error # "none" /\ last.msg = <<>> /\ ~last.delivered
           ELSE last.error = "none" /\ last.msg # <<>>

(* The fields the boundary requires, and what makes metadata invalid. *)
RequiredMetadata ==
    {"variable_name", "display_name", "pointer", "width", "height",
     "channels", "type", "row_stride", "pixel_layout"}

InvalidMetadata(md) ==
    \/ ~md.is_dict
    \/ \E f \in RequiredMetadata : f \notin md.present
    \/ \E f \in md.present : f \notin md.well_typed
    \/ md.ptr_null

(* A step in which a plot_buffer call returns. *)
PlotBufferStep ==
    pc = "idle" /\ pc' = "idle" /\ calls' = calls + 1 /\ last'.op = "plot_buffer"

(* C15: a plot_buffer call whose metadata lacks a required field, has a    *)
(* field of the wrong type, or whose pointer is no buffer view or is null, *)
(* returns an error, writes nothing, and leaves the Bridge as it was.      *)
C15_InvalidMetadataRejected ==
    [][(PlotBufferStep /\ InvalidMetadata(last'.md))
          => /\ last'.error # "none"
             /\ last'.msg = <<>>
             /\ ~last'.delivered
             /\ UNCHANGED <<server_listening, backlog, ui_running,
                            ui_connected, peer_closed, client_, net, rxbuf,
                            toPeer, received_messages_, seen, pc>>]_vars

(* A call with a missing field is rejected while the peer is connected. *)
C15_Witness ==
    /\ last.op = "plot_buffer"
    /\ last.error = "missing_field"
    /\ "row_stride" \notin last.md.present
    /\ client_ # nullptr
    /\ ~peer_closed

(* C16: with no peer ever connected, set_available_symbols returns         *)
(* normally: no assertion ends the call.                                   *)
C16_NotReadySendIsNoOp == last # Aborted("set_available_symbols")

(* A step in which a set_available_symbols call returns. *)
SetAvailableSymbolsStep ==
    /\ pc = "idle" /\ pc' = "idle"
    /\ calls' = calls + 1
    /\ last'.op = "set_available_symbols"

(* C17: set_available_symbols writes one SetAvailableSymbols message with  *)
(* the given symbols in the given order, reads nothing, waits for nothing  *)
(* and leaves the Inbox as it was.                                         *)
C17_SetAvailableSymbolsFireAndForget ==
    [][SetAvailableSymbolsStep
          => /\ last'.msg = <<TagTok(SetAvailableSymbols),
                              CntTok(Len(last'.arg))>>
                                \o [i \in 1..Len(last'.arg) |->
                                       StrTok(last'.arg[i])]
             /\ toPeer' = IF last'.delivered
                          THEN Append(toPeer, SetAvailableSymbols)
                          ELSE toPeer
             /\ UNCHANGED <<net, rxbuf, received_messages_, seen, client_,
                            peer_closed>>]_vars

(* Two symbols were sent to a connected peer while its own bytes waited. *)
C17_Witness ==
    /\ last.op = "set_available_symbols"
    /\ last.arg = <<"a", "b">>
    /\ last.delivered
    /\ net # <<>>

(* C18: a message the Bridge sends starts with its MessageType tag and     *)
(* then carries its fields in declaration order; PlotBufferContents: name, *)
(* display name, pixel layout, transpose, width, height, channels, row     *)
(* stride, element type, buffer.                                           *)
C18_TagThenFieldsInOrder ==
    /\ (last.op = "plot_buffer" /\ last.error = "none")
          => last.msg = <<TagTok(PlotBufferContents),
                          StrTok(last.md.variable_name),
                          StrTok(last.md.display_name),
                          StrTok(last.md.pixel_layout),
                          BoolTok(transpose_of(last.md)),
                          IntTok(last.md.width),
                          IntTok(last.md.height),
                          IntTok(last.md.channels),
                          IntTok(last.md.row_stride),
                          TypeTok(last.md.type),
                          BufTok(last.md.buff_size)>>
    /\ (last.op = "set_available_symbols")
          => /\ Head(last.msg) = TagTok(SetAvailableSymbols)
             /\ Tail(last.msg) = <<CntTok(Len(last.arg))>>
                                    \o [i \in 1..Len(last.arg) |->
                                           StrTok(last.arg[i])]
    /\ \A i \in 1..Len(toPeer) :
          toPeer[i] \in {GetObservedSymbols, SetAvailableSymbols,
                         PlotBufferContents}

(* A PlotBufferContents message reached a connected peer. *)
C18_Witness ==
    /\ last.op = "plot_buffer"
    /\ last.delivered
    /\ last.md.width # last.md.height
    /\ LastOf(toPeer) = PlotBufferContents

(* C19: decoding the bytes that encoding a message produces gives the      *)
(* message back, with nothing left over: strings with any bytes, the empty *)
(* sequence, the zero-length buffer, and symbols in their order.           *)
C19_RoundTrip ==
    (pc = "decoded") => last.msg = frame /\ net = <<>>

(* Two different symbols, the first with a zero byte, came back in order. *)
C19_Witness ==
    /\ pc = "decoded"
    /\ frame.type = GetObservedSymbolsResponse
    /\ frame.body.observed_symbols = <<<<0, 97>>, <<255>>>>
    /\ last.msg.body.observed_symbols = <<<<0, 97>>, <<255>>>>

(* C20: a thread inside an entry point, before, in or after the Bridge     *)
(* method, holds the lock; a thread back in the host has given it up; so   *)
(* at most one thread at a time is inside a Bridge method.                 *)
C20_OneThreadInBridge ==
    /\ \A t \in Threads :
          /\ pc[t].at \in {"entered", "bridge", "callback"} => frame.gil = t
          /\ pc[t].at \in {"host", "yielded"} => frame.gil # t
    /\ Cardinality({t \in Threads : pc[t].at \in {"entered", "bridge"}}) <= 1

(* One thread is inside a Bridge method while another, whose callback gave *)
(* up the lock, waits to go on.                                            *)
C20_Witness ==
    \E t, u \in Threads :
        /\ t # u
        /\ pc[t].at = "bridge"
        /\ pc[t].fn = "oid_plot_buffer"
        /\ pc[u].at = "yielded"
        /\ frame.gil = t

(* start() returns at once, without reaching the spawn. *)
StartFailStep ==
    pc = "idle" /\ pc' = "idle" /\ calls' = calls + 1 /\ last'.op = "start"

(* start() goes past listen and spawns. *)
StartSpawnStep == pc = "idle" /\ pc' = "wait_for_client"

(* C21: start() spawns the UI process only once the server listens, with   *)
(* the bound port in the arguments, and spawns nothing when listen fails.  *)
C21_SpawnAfterBindWithPort ==
    [][/\ StartFailStep
            => /\ last'.listen_failed
               /\ last'.args = <<>>
               /\ ui_running' = ui_running
               /\ server_listening' = server_listening
       /\ StartSpawnStep
            => /\ ~server_listening /\ server_listening'
               /\ frame'.port \in Ports
               /\ frame'.args[Len(frame'.args) - 1] = "-p"
               /\ LastOf(frame'.args) = frame'.port]_vars

(* A start() whose server got the second port spawned the UI with it. *)
C21_Witness ==
    /\ last.op = "start"
    /\ last.spawned
    /\ last.args = <<"oidwindow", "-style", "fusion", "-p", 49153>>
    /\ ui_connected

(* C23: one call of try_read_incoming_messages waits on the socket at most *)
(* once, however many messages are buffered.                               *)
C23_SingleWaitPerPump ==
    (pc \in {"pump", "fetch_recheck", "drain"}) => frame.waits <= 1

(* How far the Channel has got. *)
ChannelRank(state) ==
    CASE state = "not-started" -> 0
      [] state = "listening"   -> 1
      [] state = "connected"   -> 2
      [] state = "closed"      -> 3

(* C26: the Channel's state never moves backward, and once a peer has been *)
(* accepted no step replaces client_, takes another connection from the    *)
(* listening socket or waits for a new connection again: a repeated        *)
(* start() fails at listen and returns. (A process ended by a failed       *)
(* assertion has no Channel left to speak of.)                             *)
C26_ChannelOnlyMovesForward ==
    [][/\ pc' # "aborted" =>
             ChannelRank(ChannelState') >= ChannelRank(ChannelState)
       /\ client_ # nullptr =>
             /\ client_' = client_
             /\ backlog' <= backlog
             /\ (backlog' < backlog => pc' = "destroyed")
             /\ pc' # "wait_for_client"
             /\ (pc = "idle" /\ pc' = "idle" /\ last'.op = "start"
                     /\ calls' = calls + 1
                 => last'.listen_failed /\ ~last'.accepted)]_vars

(* start() was called again on a Bridge whose peer is connected: it failed *)
(* at listen and the Channel is still connected to the same peer.          *)
C26_Witness ==
    /\ last.op = "start"
    /\ last.listen_failed
    /\ client_ = socket
    /\ ChannelState = "connected"
    /\ calls >= 2

(* C29: run_event_loop with no peer connected (client_ == nullptr) fails   *)
(* no assertion: it returns having read nothing and called nothing.        *)
C29_PollWithoutPeerReturns ==
    /\ last # Aborted("run_event_loop")
    /\ (last.op = "run_event_loop" /\ client_ = nullptr) => last.cbs = <<>>

(* C27: the size check is sound: whenever oid_plot_buffer accepts a buffer *)
(* and its message is written to the peer, the buffer is at least          *)
(* stride * height * channels * element_size bytes long, the product       *)
(* taken exactly.                                                          *)
C27_SizeCheckSound ==
    (last.op = "plot_buffer" /\ last.error = "none" /\ last.delivered)
        => ~Less(Widen(ToBytes(last.md.buff_size, SizeBytes), ExactBytes),
                 required_size(last.md))

(* C28: the reply get_observed_symbols returns answers the request this    *)
(* call wrote: it was not in the Inbox when the call started, and it is    *)
(* not one of the replies the peer still owed to earlier requests.         *)
C28_ReplyAnswersOwnRequest ==
    (last.op = "get_observed_symbols" /\ last.fetched # NoMessage)
        => /\ ~last.stored
           /\ Len(last.arrived) > last.owed

(* A step in which an entry point is called with a null handle. *)
NullHandleStep ==
    /\ calls' = calls + 1
    /\ pc' \in {pc, "aborted"}
    /\ \/ last'.op = "null_handle"
       \/ last'.op = "abort" /\ last'.in \in HandleEntryPoints

CallInProgress == pc \in {"wait_for_client", "pump", "fetch_recheck", "drain"}

(* C25: every Facade operation that has been entered returns: start()      *)
(* after its wait for a connection, get_observed_symbols after its one     *)
(* read, run_event_loop after the loop of try_read_incoming_messages and   *)
(* its own loop over the stored requests.                                  *)
C25_EveryCallReturns == CallInProgress ~> pc = "idle"

(* run_event_loop has returned after try_read_incoming_messages went       *)
(* round its loop for two buffered messages and one callback was made.     *)
C25_Witness ==
    /\ pc = "idle"
    /\ last.op = "run_event_loop"
    /\ Len(last.pending) >= 2
    /\ Len(last.cbs) = 1

(* The messages of type t among those the UI has written, in order. *)
RECURSIVE WrittenOf(_, _)
WrittenOf(written, t) ==
    IF written = <<>>
    THEN <<>>
    ELSE (IF Head(written).type = t THEN <<Head(written).body>> ELSE <<>>)
            \o WrittenOf(Tail(written), t)

(* Everything the UI has written has been read. *)
AllRead == pc = "idle" /\ rxbuf = <<>> /\ net = <<>>

(* C22: when every message was written whole, a message whose tag the      *)
(* switch does not handle leaves nothing in the Inbox and none of its      *)
(* bytes behind: once all is read, what the host has stored under each     *)
(* type is exactly what the UI wrote of that type, in order.               *)
C22_UnknownTagSkipped ==
    (AllRead /\ ~frame.in_parts)
        => \A t \in StoredTypes : seen[t] = WrittenOf(frame.written, t)

(* C24: when every message has a tag the switch handles, a message that    *)
(* arrived in two parts is stored once, whole: once all is read, what the  *)
(* host has stored under each type is exactly what the UI wrote of that    *)
(* type, in order.                                                         *)
C24_PartialMessageKept ==
    (AllRead /\ \A i \in DOMAIN frame.written :
                    frame.written[i].type \in StoredTypes)
        => \A t \in StoredTypes :
              /\ seen[t] = WrittenOf(frame.written, t)
              /\ last.op = "read" => last.complete

(* C31: the selected stage is null or a stage that stages_ still holds,    *)
(* and it is null when stages_ is empty.                                   *)
C31_SelectionInStages ==
    /\ frame.currently_selected_stage_ # nullptr
          => frame.currently_selected_stage_ \in frame.stages_
    /\ frame.stages_ = {} => frame.currently_selected_stage_ = nullptr

(* C31, where currentItemChanged reaches buffer_selected. *)
C31_SelectionInStagesConnected == frame.connected => C31_SelectionInStages

(* The selected buffer was removed while others were left, and the row     *)
(* next to it is now the selected one.                                     *)
C31_Witness ==
    /\ frame.connected
    /\ last.op = "remove_selected_buffer"
    /\ last.removed = last.selected
    /\ last.removed \notin frame.stages_
    /\ frame.currently_selected_stage_ \in frame.stages_
    /\ frame.currently_selected_stage_ = frame.imageList[frame.currentRow]

(* The last buffer was removed and nothing is selected. *)
C31_WitnessLast ==
    /\ last.op = "remove_selected_buffer"
    /\ last.removed # nullptr
    /\ frame.stages_ = {}
    /\ frame.currently_selected_stage_ = nullptr

=============================================================================
